---- MODULE Spec2Model ----
(***************************************************************************)
(* Model of the IgaraGenerator workflow (src/workflow-executor.py): a      *)
(* dependency-aware DAG scheduler running as cooperative asyncio tasks.    *)
(*                                                                         *)
(* Every `await workflow.execute_activity(...)` is a suspension point: the *)
(* coroutine resumes only after the activity's completion has been         *)
(* delivered and the event loop has run the callbacks queued before it.    *)
(* The event loop's ready queue is FIFO; coroutines wrapped by             *)
(* asyncio.gather start when their turn in that queue comes, not at the    *)
(* gather call.                                                            *)
(*                                                                         *)
(* A node task is identified by the path of node keys from a root to the   *)
(* node: one coroutine instance of execute_node launches at most one       *)
(* coroutine per child key, so the path names the instance uniquely. The   *)
(* empty path <<>> is the run() coroutine itself.                          *)
(***************************************************************************)
EXTENDS Naturals, Sequences, FiniteSets, TLC

\* ---------------------------------------------------------------- bounds
AllKeys == {"a", "b", "c"}

MaxEdges == 3

Results == {"r1", "r2"}

\* ------------------------------------------------------------- constants
SkipMessage == "Skipped due to previous node failure"

ErrorMessage == "activity error"

EmptyResult == "{}"

NoId == "None"

ExecId == "exec-1"

Main == << >>

VARIABLES
    data,               \* GeneratorParams.dag handed to run(): [nodes, edges]
    execution_id,       \* self.execution_id
    nodes,              \* self.nodes (key set of the mapping)
    edges,              \* self.edges, as the set of <<from_node, to_node>>
    node_dependencies,  \* self._node_dependencies
    executed_nodes,     \* self.executed_nodes: key -> [status, output]
    workflow_failed,    \* self._workflow_failed
    mainPc,             \* position of the run() coroutine
    root_keys,          \* local root_keys of process_root_nodes
    init_cur,           \* root being visited by initialize_root_nodes
    init_todo,          \* roots still to visit in initialize_root_nodes
    final_status,       \* local final_status of finalize_execution
    returned,           \* value returned by run() (read when mainPc = "returned")
    task,               \* path -> [pc, result]: execute_node coroutines
    ready,              \* event loop ready queue (sequence of paths)
    pStatus,            \* persisted execution record: /status
    pOutput,            \* persisted execution record: /output/<key>
    dispatchCount,      \* history: node operations dispatched, per key
    recordCount,        \* history: writes to executed_nodes, per key
    opFailed,           \* history: keys whose operation has raised
    statusLog,          \* history: the values written to /status, in order
    inFlightAtFailure   \* history: coroutines whose operation was in flight
                        \* when the operation of another node raised

vars == << data, execution_id, nodes, edges, node_dependencies,
           executed_nodes, workflow_failed, mainPc, root_keys, init_cur,
           init_todo, final_status, returned, task, ready, pStatus, pOutput,
           dispatchCount, recordCount, opFailed, statusLog,
           inFlightAtFailure >>

\* ------------------------------------------------------------- helpers
Last(p) == p[Len(p)]

Parent(p) == SubSeq(p, 1, Len(p) - 1)

Range(s) == {s[i] : i \in 1..Len(s)}

\* the coroutines launched by coroutine p through asyncio.gather
ChildTasks(t, p) ==
    {q \in DOMAIN t : Len(q) = Len(p) + 1 /\ SubSeq(q, 1, Len(p)) = p}

\* the orders in which a set can be iterated
Orders(S) ==
    {s \in [1..Cardinality(S) -> S] : \A i, j \in 1..Cardinality(S) : s[i] = s[j] => i = j}

NewTask == [pc |-> "start", result |-> "None"]

\* Edge.from_node / Edge.to_node left at their default
NoneKey == "None"

\* the edges a graph over the keys ns can carry: both endpoints are node
\* keys, or from_node is missing (to_node a node key or missing as well)
EdgesOver(ns) == (ns \X ns) \cup ({NoneKey} \X (ns \cup {NoneKey}))

\* the graphs handed to run()
Graphs ==
    {g \in [nodes : SUBSET AllKeys, edges : SUBSET EdgesOver(AllKeys)] :
        /\ g.edges \subseteq EdgesOver(g.nodes)
        /\ Cardinality(g.edges) <= MaxEdges}

\* ------------------------------------------------- pure parts of the code
\* Generator._precompute_dependencies
PrecomputeDependencies(ns, es) ==
    [node \in ns |-> {e[1] : e \in {x \in es : x[2] = node}}]

\* find_root_keys subtracting the edge sources instead of the edge targets
FindRootKeysFromSources(ns, es) ==
    LET all_nodes == ns
        child_nodes == {e[1] : e \in es}
    IN  all_nodes \ child_nodes

\* Generator.find_root_keys
FindRootKeys(ns, es) ==
    LET all_nodes == ns
        child_nodes == {e[2] : e \in es}
    IN  all_nodes \ child_nodes

\* determine_final_status comparing against the enum member instead of its
\* name: the FAILED test never matches
DetermineFinalStatusEnumCompare(executed) ==
    LET statuses == {executed[k].status : k \in DOMAIN executed}
    IN  IF "PENDING" \in statuses THEN "PENDING"
        ELSE "COMPLETED"

\* Generator.determine_final_status
DetermineFinalStatus(executed) ==
    LET statuses == {executed[k].status : k \in DOMAIN executed}
    IN  IF "FAILED" \in statuses THEN "FAILED"
        ELSE IF "PENDING" \in statuses THEN "PENDING"
        ELSE "COMPLETED"

\* `children` with from_node and to_node exchanged
ChildrenOfSwapped(es, node_key) == {e[1] : e \in {x \in es : x[2] = node_key}}

\* the comprehension `children` of Generator._process_child_nodes
ChildrenOf(es, node_key) == {e[2] : e \in {x \in es : x[1] = node_key}}

\* self._node_dependencies.get(child, set())
DepsGet(deps, child) == IF child \in DOMAIN deps THEN deps[child] ELSE {}

\* `ready_children` with any() in place of all()
ReadyChildrenAny(es, deps, executed, node_key) ==
    {child \in ChildrenOf(es, node_key) :
        \E dep \in DepsGet(deps, child) : dep \in DOMAIN executed}

\* `ready_children` that also requires every dependency to have succeeded
ReadyChildrenSuccessOnly(es, deps, executed, node_key) ==
    {child \in ChildrenOf(es, node_key) :
        \A dep \in DepsGet(deps, child) :
            dep \in DOMAIN executed /\ executed[dep].status = "SUCCESS"}

\* the comprehension `ready_children` of Generator._process_child_nodes
ReadyChildren(es, deps, executed, node_key) ==
    {child \in ChildrenOf(es, node_key) :
        \A dep \in DepsGet(deps, child) : dep \in DOMAIN executed}

\* Generator.update_node_output: add /output/<key>, then /output/<key>/status
PatchNodeOutput(out, node_key, result, status) ==
    (node_key :> [output |-> result, status |-> status]) @@ out

\* self.executed_nodes[node_key] = {"status": ..., "output": ...}
RecordResult(executed, node_key, status, output) ==
    (node_key :> [status |-> status, output |-> output]) @@ executed

\* --------------------------------------------------------------- Init
Init ==
    /\ data \in Graphs
    /\ execution_id = NoId
    /\ nodes = {}
    /\ edges = {}
    /\ node_dependencies = << >>
    /\ executed_nodes = << >>
    /\ workflow_failed = FALSE
    /\ mainPc = "new"
    /\ root_keys = {}
    /\ init_cur = "None"
    /\ init_todo = {}
    /\ final_status = "None"
    /\ returned = << >>
    /\ task = << >>
    /\ ready = << >>
    /\ pStatus = "None"
    /\ pOutput = << >>
    /\ dispatchCount = [k \in AllKeys |-> 0]
    /\ recordCount = [k \in AllKeys |-> 0]
    /\ opFailed = {}
    /\ statusLog = << >>
    /\ inFlightAtFailure = {}

\* ------------------------------------------------ the run() coroutine
\* Generator.run is called: initialize_execution awaits the creation activity
StartRun ==
    /\ mainPc = "new"
    /\ mainPc' = "create"
    /\ UNCHANGED << data, execution_id, nodes, edges, node_dependencies,
                    executed_nodes, workflow_failed, root_keys, init_cur,
                    init_todo, final_status, returned, task, ready, pStatus, statusLog,
                    pOutput, dispatchCount, recordCount, opFailed, inFlightAtFailure >>

\* create_execution_activity completes: the record exists with status PENDING
CreateExecutionReturns ==
    /\ mainPc = "create"
    /\ mainPc' = "create_ok"
    /\ pStatus' = "PENDING"
    /\ statusLog' = Append(statusLog, pStatus')
    /\ ready' = Append(ready, Main)
    /\ UNCHANGED << data, execution_id, nodes, edges, node_dependencies,
                    executed_nodes, workflow_failed, root_keys, init_cur,
                    init_todo, final_status, returned, task, pOutput,
                    dispatchCount, recordCount, opFailed, inFlightAtFailure >>

\* create_execution_activity raises workflow.ActivityError
CreateExecutionRaises ==
    /\ mainPc = "create"
    /\ mainPc' = "create_err"
    /\ ready' = Append(ready, Main)
    /\ UNCHANGED << data, execution_id, nodes, edges, node_dependencies,
                    executed_nodes, workflow_failed, root_keys, init_cur,
                    init_todo, final_status, returned, task, pStatus, statusLog, pOutput,
                    dispatchCount, recordCount, opFailed, inFlightAtFailure >>

\* initialize_execution: the except branch logs and re-raises out of run()
InitializeExecutionRaises ==
    /\ ready # << >> /\ Head(ready) = Main
    /\ mainPc = "create_err"
    /\ mainPc' = "aborted"
    /\ ready' = Tail(ready)
    /\ UNCHANGED << data, execution_id, nodes, edges, node_dependencies,
                    executed_nodes, workflow_failed, root_keys, init_cur,
                    init_todo, final_status, returned, task, pStatus, statusLog, pOutput,
                    dispatchCount, recordCount, opFailed, inFlightAtFailure >>

\* initialize_execution after the activity returned, then process_root_nodes
\* up to the first await (the first PENDING placeholder, or the EXECUTING
\* status when there is no root)
InitializeExecution ==
    /\ ready # << >> /\ Head(ready) = Main
    /\ mainPc = "create_ok"
    /\ execution_id' = ExecId
    /\ nodes' = data.nodes
    /\ edges' = data.edges
    /\ node_dependencies' = PrecomputeDependencies(nodes', edges')
    /\ root_keys' = FindRootKeys(nodes', edges')
    /\ IF root_keys' = {}
         THEN /\ mainPc' = "status_exec"
              /\ UNCHANGED << init_cur, init_todo >>
         ELSE /\ mainPc' = "init_roots"
              /\ \E key \in root_keys' :
                    /\ init_cur' = key
                    /\ init_todo' = root_keys' \ {key}
    /\ ready' = Tail(ready)
    /\ UNCHANGED << data, executed_nodes, workflow_failed, final_status,
                    returned, task, pStatus, statusLog, pOutput, dispatchCount,
                    recordCount, opFailed, inFlightAtFailure >>

\* the patch of update_node_output(key, status=PENDING, result={}) is applied
RootPlaceholderPersisted ==
    /\ mainPc = "init_roots"
    /\ Main \notin Range(ready)
    /\ pOutput' = PatchNodeOutput(pOutput, init_cur, EmptyResult, "PENDING")
    /\ ready' = Append(ready, Main)
    /\ UNCHANGED << data, execution_id, nodes, edges, node_dependencies,
                    executed_nodes, workflow_failed, mainPc, root_keys,
                    init_cur, init_todo, final_status, returned, task,
                    pStatus, statusLog, dispatchCount, recordCount, opFailed, inFlightAtFailure >>

\* initialize_root_nodes: next iteration of the loop over root_keys, or
\* update_execution_status(Status.EXECUTING) when the loop is over
InitializeRootNodes ==
    /\ ready # << >> /\ Head(ready) = Main
    /\ mainPc = "init_roots"
    /\ IF init_todo = {}
         THEN /\ mainPc' = "status_exec"
              /\ UNCHANGED << init_cur, init_todo >>
         ELSE /\ mainPc' = "init_roots"
              /\ \E key \in init_todo :
                    /\ init_cur' = key
                    /\ init_todo' = init_todo \ {key}
    /\ ready' = Tail(ready)
    /\ UNCHANGED << data, execution_id, nodes, edges, node_dependencies,
                    executed_nodes, workflow_failed, root_keys, final_status,
                    returned, task, pStatus, statusLog, pOutput, dispatchCount,
                    recordCount, opFailed, inFlightAtFailure >>

\* the patch of update_execution_status is applied (EXECUTING, or the final
\* status of finalize_execution)
ExecutionStatusPersisted ==
    /\ mainPc \in {"status_exec", "finalize"}
    /\ Main \notin Range(ready)
    /\ pStatus' = IF mainPc = "status_exec" THEN "EXECUTING" ELSE final_status
    /\ statusLog' = Append(statusLog, pStatus')
    /\ ready' = Append(ready, Main)
    /\ UNCHANGED << data, execution_id, nodes, edges, node_dependencies,
                    executed_nodes, workflow_failed, mainPc, root_keys,
                    init_cur, init_todo, final_status, returned, task,
                    pOutput, dispatchCount, recordCount, opFailed, inFlightAtFailure >>

\* process_root_nodes: asyncio.gather over execute_node(key) for the roots;
\* with no root the gather is already done and finalize_execution follows
ProcessRootNodes ==
    /\ ready # << >> /\ Head(ready) = Main
    /\ mainPc = "status_exec"
    /\ IF root_keys = {}
         THEN /\ final_status' = DetermineFinalStatus(executed_nodes)
              /\ mainPc' = "finalize"
              /\ ready' = Tail(ready)
              /\ task' = task
         ELSE /\ mainPc' = "gather"
              /\ task' = [p \in {<<key>> : key \in root_keys} |-> NewTask]
              /\ \E ord \in Orders(root_keys) :
                    ready' = Tail(ready) \o [i \in 1..Len(ord) |-> <<ord[i]>>]
              /\ UNCHANGED final_status
    /\ UNCHANGED << data, execution_id, nodes, edges, node_dependencies,
                    executed_nodes, workflow_failed, root_keys, init_cur,
                    init_todo, returned, pStatus, statusLog, pOutput, dispatchCount,
                    recordCount, opFailed, inFlightAtFailure >>

\* the root gather has joined: finalize_execution computes the final status
\* and awaits update_execution_status(final_status)
FinalizeExecution ==
    /\ ready # << >> /\ Head(ready) = Main
    /\ mainPc = "gather"
    /\ final_status' = DetermineFinalStatus(executed_nodes)
    /\ mainPc' = "finalize"
    /\ ready' = Tail(ready)
    /\ UNCHANGED << data, execution_id, nodes, edges, node_dependencies,
                    executed_nodes, workflow_failed, root_keys, init_cur,
                    init_todo, returned, task, pStatus, statusLog, pOutput,
                    dispatchCount, recordCount, opFailed, inFlightAtFailure >>

\* run: return self.executed_nodes
Return ==
    /\ ready # << >> /\ Head(ready) = Main
    /\ mainPc = "finalize"
    /\ returned' = executed_nodes
    /\ mainPc' = "returned"
    /\ ready' = Tail(ready)
    /\ UNCHANGED << data, execution_id, nodes, edges, node_dependencies,
                    executed_nodes, workflow_failed, root_keys, init_cur,
                    init_todo, final_status, task, pStatus, statusLog, pOutput,
                    dispatchCount, recordCount, opFailed, inFlightAtFailure >>

\* ------------------------------------------ the execute_node coroutines
\* Coroutine p returns: task with p done; when every coroutine of the gather
\* p belongs to is done, the awaiting parent is made ready.
Finished(t, p) == [t EXCEPT ![p].pc = "done"]

\* a join that resumes the parent as soon as one coroutine of the gather is
\* done (FIRST_COMPLETED instead of join-all)
JoinWakeupFirstCompleted(t, p) ==
    IF \E q \in ChildTasks(t, Parent(p)) : t[q].pc = "done"
      THEN << Parent(p) >>
      ELSE << >>

\* a join that waits for every coroutine of the run, not only for those of
\* its own gather
JoinWakeupWholeRun(t, p) ==
    IF \A q \in DOMAIN t : t[q].pc = "done"
      THEN << Parent(p) >>
      ELSE << >>

JoinWakeup(t, p) ==
    IF \A q \in ChildTasks(t, Parent(p)) : t[q].pc = "done"
      THEN << Parent(p) >>
      ELSE << >>

\* the head of the ready queue is node coroutine p at position pc
Runs(p, pc) ==
    /\ ready # << >>
    /\ Head(ready) = p
    /\ p # Main
    /\ task[p].pc = pc

\* execute_node with the failure flag set: _handle_skipped_node up to its await
HandleSkippedNode ==
    \E p \in DOMAIN task :
        /\ Runs(p, "start")
        /\ workflow_failed
        /\ executed_nodes' = RecordResult(executed_nodes, Last(p), "SKIPPED", SkipMessage)
        /\ recordCount' = [recordCount EXCEPT ![Last(p)] = @ + 1]
        /\ task' = [task EXCEPT ![p] = [pc |-> "skip_persist", result |-> SkipMessage]]
        /\ ready' = Tail(ready)
        /\ UNCHANGED << data, execution_id, nodes, edges, node_dependencies,
                        workflow_failed, mainPc, root_keys, init_cur, init_todo,
                        final_status, returned, pStatus, statusLog, pOutput, dispatchCount,
                        opFailed, inFlightAtFailure >>

\* _process_node_execution that also enters the EXECUTING placeholder in
\* the executed map
ExecuteNodeRecordsPlaceholder ==
    \E p \in DOMAIN task :
        /\ Runs(p, "start")
        /\ ~workflow_failed
        /\ executed_nodes' = RecordResult(executed_nodes, Last(p), "EXECUTING", EmptyResult)
        /\ task' = [task EXCEPT ![p].pc = "exec_persist"]
        /\ ready' = Tail(ready)
        /\ UNCHANGED << data, execution_id, nodes, edges, node_dependencies,
                        workflow_failed, mainPc, root_keys,
                        init_cur, init_todo, final_status, returned, pStatus,
                        statusLog, pOutput, dispatchCount, recordCount,
                        opFailed, inFlightAtFailure >>

\* execute_node with the flag clear: _process_node_execution up to the await
\* of update_node_output(status=EXECUTING, result={})
ExecuteNode ==
    \E p \in DOMAIN task :
        /\ Runs(p, "start")
        /\ ~workflow_failed
        /\ task' = [task EXCEPT ![p].pc = "exec_persist"]
        /\ ready' = Tail(ready)
        /\ UNCHANGED << data, execution_id, nodes, edges, node_dependencies,
                        executed_nodes, workflow_failed, mainPc, root_keys,
                        init_cur, init_todo, final_status, returned, pStatus, statusLog,
                        pOutput, dispatchCount, recordCount, opFailed, inFlightAtFailure >>

\* the patch a node coroutine awaits is applied to the execution record
NodeOutputPersisted ==
    \E p \in DOMAIN task :
        /\ p \in DOMAIN task
        /\ p \notin Range(ready)
        /\ task[p].pc \in {"exec_persist", "succ_persist", "fail_persist", "skip_persist"}
        /\ pOutput' =
             IF task[p].pc = "exec_persist"
               THEN PatchNodeOutput(pOutput, Last(p), EmptyResult, "EXECUTING")
             ELSE IF task[p].pc = "succ_persist"
               THEN PatchNodeOutput(pOutput, Last(p), task[p].result, "SUCCESS")
             ELSE IF task[p].pc = "fail_persist"
               THEN PatchNodeOutput(pOutput, Last(p), task[p].result, "FAILED")
             ELSE PatchNodeOutput(pOutput, Last(p), task[p].result, "SKIPPED")
        /\ ready' = Append(ready, p)
        /\ UNCHANGED << data, execution_id, nodes, edges, node_dependencies,
                        executed_nodes, workflow_failed, mainPc, root_keys,
                        init_cur, init_todo, final_status, returned, task,
                        pStatus, statusLog, dispatchCount, recordCount, opFailed, inFlightAtFailure >>

\* _process_node_execution: workflow.execute_activity(node.activity_id, ...)
DispatchActivity ==
    \E p \in DOMAIN task :
        /\ Runs(p, "exec_persist")
        /\ dispatchCount' = [dispatchCount EXCEPT ![Last(p)] = @ + 1]
        /\ task' = [task EXCEPT ![p].pc = "activity"]
        /\ ready' = Tail(ready)
        /\ UNCHANGED << data, execution_id, nodes, edges, node_dependencies,
                        executed_nodes, workflow_failed, mainPc, root_keys,
                        init_cur, init_todo, final_status, returned, pStatus, statusLog,
                        pOutput, recordCount, opFailed, inFlightAtFailure >>

\* the node's activity finishes (result or error after the retry budget)
ActivityCompletes ==
    \E p \in DOMAIN task :
        /\ p \in DOMAIN task
        /\ p \notin Range(ready)
        /\ task[p].pc = "activity"
        /\ ready' = Append(ready, p)
        /\ UNCHANGED << data, execution_id, nodes, edges, node_dependencies,
                        executed_nodes, workflow_failed, mainPc, root_keys,
                        init_cur, init_todo, final_status, returned, task,
                        pStatus, statusLog, pOutput, dispatchCount, recordCount, opFailed, inFlightAtFailure >>

\* _handle_successful_execution that also clears the failure flag
HandleSuccessfulExecutionClearsFlag ==
    \E p \in DOMAIN task :
        /\ Runs(p, "activity")
        /\ \E result \in Results :
              /\ executed_nodes' = RecordResult(executed_nodes, Last(p), "SUCCESS", result)
              /\ task' = [task EXCEPT ![p] = [pc |-> "succ_persist", result |-> result]]
        /\ recordCount' = [recordCount EXCEPT ![Last(p)] = @ + 1]
        /\ workflow_failed' = FALSE
        /\ ready' = Tail(ready)
        /\ UNCHANGED << data, execution_id, nodes, edges, node_dependencies,
                        mainPc, root_keys, init_cur, init_todo,
                        final_status, returned, pStatus, statusLog, pOutput,
                        dispatchCount, opFailed, inFlightAtFailure >>

\* _handle_successful_execution up to its await
HandleSuccessfulExecution ==
    \E p \in DOMAIN task :
        /\ Runs(p, "activity")
        /\ \E result \in Results :
              /\ executed_nodes' = RecordResult(executed_nodes, Last(p), "SUCCESS", result)
              /\ task' = [task EXCEPT ![p] = [pc |-> "succ_persist", result |-> result]]
        /\ recordCount' = [recordCount EXCEPT ![Last(p)] = @ + 1]
        /\ ready' = Tail(ready)
        /\ UNCHANGED << data, execution_id, nodes, edges, node_dependencies,
                        workflow_failed, mainPc, root_keys, init_cur, init_todo,
                        final_status, returned, pStatus, statusLog, pOutput, dispatchCount,
                        opFailed, inFlightAtFailure >>

\* the except branch: _handle_failed_execution up to its await
HandleFailedExecution ==
    \E p \in DOMAIN task :
        /\ Runs(p, "activity")
        /\ executed_nodes' = RecordResult(executed_nodes, Last(p), "FAILED", ErrorMessage)
        /\ task' = [task EXCEPT ![p] = [pc |-> "fail_persist", result |-> ErrorMessage]]
        /\ recordCount' = [recordCount EXCEPT ![Last(p)] = @ + 1]
        /\ opFailed' = opFailed \cup {Last(p)}
        /\ inFlightAtFailure' = inFlightAtFailure \cup
               {q \in DOMAIN task : Last(q) # Last(p) /\ task[q].pc = "activity"}
        /\ ready' = Tail(ready)
        /\ UNCHANGED << data, execution_id, nodes, edges, node_dependencies,
                        workflow_failed, mainPc, root_keys, init_cur, init_todo,
                        final_status, returned, pStatus, statusLog, pOutput, dispatchCount >>

\* _handle_failed_execution after its await: the flag is set, and
\* _process_node_execution returns without processing children
SetWorkflowFailed ==
    \E p \in DOMAIN task :
        /\ Runs(p, "fail_persist")
        /\ workflow_failed' = TRUE
        /\ task' = Finished(task, p)
        /\ ready' = Tail(ready) \o JoinWakeup(task', p)
        /\ UNCHANGED << data, execution_id, nodes, edges, node_dependencies,
                        executed_nodes, mainPc, root_keys, init_cur, init_todo,
                        final_status, returned, pStatus, statusLog, pOutput, dispatchCount,
                        recordCount, opFailed, inFlightAtFailure >>

\* _handle_skipped_node after its await: execute_node returns
SkippedNodeDone ==
    \E p \in DOMAIN task :
        /\ Runs(p, "skip_persist")
        /\ task' = Finished(task, p)
        /\ ready' = Tail(ready) \o JoinWakeup(task', p)
        /\ UNCHANGED << data, execution_id, nodes, edges, node_dependencies,
                        executed_nodes, workflow_failed, mainPc, root_keys,
                        init_cur, init_todo, final_status, returned, pStatus, statusLog,
                        pOutput, dispatchCount, recordCount, opFailed, inFlightAtFailure >>

\* _process_child_nodes, entered once the SUCCESS patch is acknowledged
ProcessChildNodes ==
    \E p \in DOMAIN task :
        /\ Runs(p, "succ_persist")
        /\ LET ready_children ==
                   IF workflow_failed
                     THEN {}
                     ELSE ReadyChildren(edges, node_dependencies, executed_nodes, Last(p))
           IN  IF ready_children = {}
                 THEN /\ task' = Finished(task, p)
                      /\ ready' = Tail(ready) \o JoinWakeup(task', p)
                 ELSE /\ task' = [q \in {Append(p, child) : child \in ready_children} |-> NewTask]
                                    @@ [task EXCEPT ![p].pc = "join"]
                      /\ \E ord \in Orders(ready_children) :
                            ready' = Tail(ready) \o [i \in 1..Len(ord) |-> Append(p, ord[i])]
        /\ UNCHANGED << data, execution_id, nodes, edges, node_dependencies,
                        executed_nodes, workflow_failed, mainPc, root_keys,
                        init_cur, init_todo, final_status, returned, pStatus, statusLog,
                        pOutput, dispatchCount, recordCount, opFailed, inFlightAtFailure >>

\* the gather of _process_child_nodes has joined: the coroutine returns
ChildNodesJoined ==
    \E p \in DOMAIN task :
        /\ Runs(p, "join")
        /\ task' = Finished(task, p)
        /\ ready' = Tail(ready) \o JoinWakeup(task', p)
        /\ UNCHANGED << data, execution_id, nodes, edges, node_dependencies,
                        executed_nodes, workflow_failed, mainPc, root_keys,
                        init_cur, init_todo, final_status, returned, pStatus, statusLog,
                        pOutput, dispatchCount, recordCount, opFailed, inFlightAtFailure >>

\* ----------------------------------------------------- specification
Next ==
    \/ StartRun
    \/ CreateExecutionReturns
    \/ CreateExecutionRaises
    \/ InitializeExecutionRaises
    \/ InitializeExecution
    \/ RootPlaceholderPersisted
    \/ InitializeRootNodes
    \/ ExecutionStatusPersisted
    \/ ProcessRootNodes
    \/ FinalizeExecution
    \/ Return
    \/ HandleSkippedNode
    \/ ExecuteNode
    \/ NodeOutputPersisted
    \/ DispatchActivity
    \/ ActivityCompletes
    \/ HandleSuccessfulExecution
    \/ HandleFailedExecution
    \/ SetWorkflowFailed
    \/ SkippedNodeDone
    \/ ProcessChildNodes
    \/ ChildNodesJoined

Spec == Init /\ [][Next]_vars

\* ------------------------------------------------ vocabulary of the claims
Succ(es, S) == {e[2] : e \in {x \in es : x[1] \in S}}

RECURSIVE Descendants(_, _, _)
Descendants(es, S, k) ==
    IF k = 0 THEN {}
    ELSE Succ(es, S) \cup Descendants(es, Succ(es, S), k - 1)

Acyclic(g) ==
    \A n \in g.nodes : n \notin Descendants(g.edges, {n}, Cardinality(g.nodes))

\* every edge references existing node keys
WellFormed(g) == g.edges \subseteq (g.nodes \X g.nodes)

Diamond == [nodes |-> {"a", "b", "c"}, edges |-> {<<"a", "c">>, <<"b", "c">>}]

ScenarioB == [nodes |-> {"a", "b", "c"}, edges |-> {<<"a", "b">>, <<"a", "c">>}]

\* keys for which a coroutine of execute_node has been created
Invoked == {Last(p) : p \in DOMAIN task}

\* C1: over an acyclic graph each node's operation is dispatched at most
\* once and a result is recorded for it at most once, whatever the
\* interleaving of the node tasks.
C1_AtMostOnce ==
    Acyclic(data) =>
        \A k \in AllKeys : dispatchCount[k] <= 1 /\ recordCount[k] <= 1

\* C2: if the operation of any node failed during the run, the final status
\* computed and persisted at the end of the run is FAILED.
C2_FailureMeansFailed ==
    (mainPc = "returned" /\ opFailed # {}) =>
        (final_status = "FAILED" /\ pStatus = "FAILED")

\* C3: for nodes {a,b,c} with edges a->b and a->c, if a fails the returned
\* map has a FAILED, b and c SKIPPED with the fixed skip message, and the
\* run status is FAILED.
C3_ScenarioBSkipsChildren ==
    (data = ScenarioB /\ mainPc = "returned" /\ "a" \in opFailed) =>
        /\ DOMAIN returned = {"a", "b", "c"}
        /\ returned["a"].status = "FAILED"
        /\ returned["b"] = [status |-> "SKIPPED", output |-> SkipMessage]
        /\ returned["c"] = [status |-> "SKIPPED", output |-> SkipMessage]
        /\ pStatus = "FAILED"

C5_SkipAfterFailure ==
    [][\A p \in DOMAIN task :
          (opFailed # {} /\ task[p].pc = "start" /\ task'[p].pc # "start") =>
              /\ task'[p].pc = "skip_persist"
              /\ executed_nodes'[Last(p)] = [status |-> "SKIPPED", output |-> SkipMessage]]_vars

\* C6: every coroutine created for a node (hence every dispatch and every
\* SKIPPED record) finds all of the node's precomputed dependencies already
\* present in the executed map.
C6_LaunchedAfterDependencies ==
    \A p \in DOMAIN task :
        node_dependencies[Last(p)] \subseteq DOMAIN executed_nodes

\* C6 witness: the operation of a node with two dependencies is in flight.
C6_Witness ==
    \E p \in DOMAIN task :
        /\ Cardinality(node_dependencies[Last(p)]) = 2
        /\ task[p].pc = "activity"

\* C7 (as the final result of a run): when the run has returned, every node
\* whose non-empty dependency set is entirely recorded has had execute_node
\* invoked for it.
C7_ReadyChildInvoked ==
    mainPc = "returned" =>
        \A n \in nodes :
            (node_dependencies[n] # {} /\ node_dependencies[n] \subseteq DOMAIN executed_nodes)
                => n \in Invoked

\* C8: an entry of the executed map never changes once written.
C8_TerminalEntriesStable ==
    [][\A k \in DOMAIN executed_nodes : executed_nodes'[k] = executed_nodes[k]]_vars

C10_RootSet ==
    mainPc \in {"init_roots", "status_exec", "gather", "finalize", "returned"} =>
        /\ root_keys = {n \in data.nodes : ~ \E e \in data.edges : e[2] = n}
        /\ \A e \in data.edges :
              (e[1] \in data.nodes /\ ~ \E f \in data.edges : f[2] = e[1])
                  => e[1] \in root_keys
        /\ mainPc \in {"gather", "returned"} =>
              ChildTasks(task, Main) = {<<n>> : n \in root_keys}

\* C10 witness: the fan-out has happened on a graph with a source-only node
\* and a node that is not a root.
C10_Witness ==
    /\ mainPc = "gather"
    /\ \E e \in data.edges : e[1] \in root_keys /\ e[2] \notin root_keys
    /\ Cardinality(root_keys) = 2

\* ------------------------------------- a run over a four-node graph
WideKeys == AllKeys \cup {"d"}

\* two parents joining on c next to an unrelated root d
WideGraph ==
    [nodes |-> WideKeys, edges |-> {<<"a", "c">>, <<"b", "c">>}]

InitWide ==
    /\ data = WideGraph
    /\ execution_id = NoId
    /\ nodes = {}
    /\ edges = {}
    /\ node_dependencies = << >>
    /\ executed_nodes = << >>
    /\ workflow_failed = FALSE
    /\ mainPc = "new"
    /\ root_keys = {}
    /\ init_cur = "None"
    /\ init_todo = {}
    /\ final_status = "None"
    /\ returned = << >>
    /\ task = << >>
    /\ ready = << >>
    /\ pStatus = "None"
    /\ pOutput = << >>
    /\ dispatchCount = [k \in WideKeys |-> 0]
    /\ recordCount = [k \in WideKeys |-> 0]
    /\ opFailed = {}
    /\ statusLog = << >>
    /\ inFlightAtFailure = {}

SpecWide == InitWide /\ [][Next]_vars

\* C11: a coroutine whose operation was in flight when the operation of
\* another node failed records SUCCESS or FAILED for its node, and that
\* node is never recorded SKIPPED.
C11_InFlightKeepsOutcome ==
    \A p \in inFlightAtFailure :
        /\ task[p].pc \in {"activity", "succ_persist", "fail_persist", "join", "done"}
        /\ task[p].pc # "activity" => Last(p) \in DOMAIN executed_nodes
        /\ Last(p) \in DOMAIN executed_nodes =>
              executed_nodes[Last(p)].status \in {"SUCCESS", "FAILED"}

\* the dependencies of n that come from edges with both endpoints present
WellFormedDeps(g, n) == {e[1] : e \in {x \in g.edges : x[2] = n /\ x[1] # NoneKey}}

\* C12 (on the result of a run without failure): an edge whose from_node is
\* missing adds nothing to its target's dependency set, and a node is
\* launched once its dependencies from well-formed edges are recorded.
C12_MissingEndpointIgnored ==
    (mainPc = "returned" /\ opFailed = {}) =>
        \A n \in nodes :
            /\ NoneKey \notin node_dependencies[n]
            /\ WellFormedDeps(data, n) \subseteq DOMAIN returned => n \in DOMAIN returned

\* Every activity call eventually returns and the event loop runs every
\* callback of its ready queue: some enabled step is eventually taken.
FairSpec == Spec /\ WF_vars(Next)

OnCycle(g, n) == n \in Descendants(g.edges, {n}, Cardinality(g.nodes))

C14_FlagOneWay ==
    /\ ~workflow_failed
    /\ [][/\ workflow_failed => workflow_failed'
          /\ (~workflow_failed /\ workflow_failed') =>
                \E p \in DOMAIN task :
                    /\ task[p].pc = "fail_persist"
                    /\ task'[p].pc = "done"
                    /\ Last(p) \in opFailed
                    /\ recordCount[Last(p)] >= 1]_vars

\* C14 witness: the flag is set while another coroutine has recorded a
\* SUCCESS after it.
C14_Witness ==
    /\ workflow_failed
    /\ \E p \in DOMAIN task : task[p].pc = "succ_persist"

\* C15: the values written to /status are PENDING, then EXECUTING, then the
\* final status, each once; no coroutine of a node exists before EXECUTING
\* is written and every root has its placeholder in the store by then; the
\* final status is written only when every node coroutine is done.
C15_StatusOrder ==
    /\ Len(statusLog) <= 3
    /\ Len(statusLog) >= 1 => statusLog[1] = "PENDING"
    /\ Len(statusLog) >= 2 => statusLog[2] = "EXECUTING"
    /\ Len(statusLog) = 3 =>
          /\ statusLog[3] = final_status
          /\ \A p \in DOMAIN task : task[p].pc = "done"
    /\ (DOMAIN task # {} \/ \E k \in DOMAIN dispatchCount : dispatchCount[k] > 0) =>
          /\ Len(statusLog) >= 2
          /\ \A r \in root_keys : r \in DOMAIN pOutput
    /\ mainPc = "returned" => Len(statusLog) = 3

\* C15 witness: a run with a transitively launched child has returned.
C15_Witness ==
    /\ mainPc = "returned"
    /\ Len(statusLog) = 3
    /\ \E p \in DOMAIN task : Len(p) = 2

\* C16: readiness only asks that each dependency has an entry: when a
\* coroutine evaluates its children with the flag clear, it launches exactly
\* the children whose dependencies are all keys of the executed map,
\* whatever their status; so an operation can be dispatched while one of
\* its dependencies is FAILED (the witness).
C16_ReadinessIsPresence ==
    [][\A p \in DOMAIN task :
          (task[p].pc = "succ_persist" /\ task'[p].pc # "succ_persist" /\ ~workflow_failed) =>
              {Last(q) : q \in ChildTasks(task', p)} =
                  {c \in data.nodes :
                      /\ <<Last(p), c>> \in data.edges
                      /\ \A e \in data.edges :
                            e[2] = c => e[1] \in DOMAIN executed_nodes}]_vars

\* C16 witness: an operation is in flight while a dependency of its node,
\* recorded once, is FAILED.
C16_Witness ==
    \E p \in DOMAIN task :
        /\ task[p].pc = "activity"
        /\ \E d \in node_dependencies[Last(p)] :
              /\ d \in DOMAIN executed_nodes
              /\ executed_nodes[d].status = "FAILED"
              /\ recordCount[d] = 1

C18_OnlyTerminalInMap ==
    /\ \A k \in DOMAIN executed_nodes :
          executed_nodes[k].status \in {"SUCCESS", "FAILED", "SKIPPED"}
    /\ \A k \in DOMAIN pOutput :
          (pOutput[k].status \in {"PENDING", "EXECUTING"} /\ recordCount[k] = 0) =>
              /\ k \notin DOMAIN executed_nodes
              /\ \A e \in edges : e[1] = k => e[2] \notin Invoked
    /\ final_status \in {"None", "COMPLETED", "FAILED"}
    /\ pStatus # "PENDING" \/ Len(statusLog) = 1

\* C18 witness: a node has only its EXECUTING placeholder while every other
\* dependency of one of its children is already recorded.
C18_Witness ==
    \E k \in DOMAIN pOutput :
        /\ pOutput[k].status = "EXECUTING"
        /\ k \notin DOMAIN executed_nodes
        /\ \E e \in edges :
              /\ e[1] = k
              /\ node_dependencies[e[2]] \ {k} # {}
              /\ node_dependencies[e[2]] \ {k} \subseteq DOMAIN executed_nodes

\* C19: when the run has returned, the store holds for every key of the
\* returned map the status the map has, holds no other key, and its /status
\* is FAILED exactly when the map has a FAILED entry.
C19_StoreAgreesWithMap ==
    mainPc = "returned" =>
        /\ \A k \in DOMAIN returned :
              k \in DOMAIN pOutput /\ pOutput[k].status = returned[k].status
        /\ DOMAIN pOutput \subseteq DOMAIN returned
        /\ (pStatus = "FAILED") <=> (\E k \in DOMAIN returned : returned[k].status = "FAILED")

====
